---- MODULE Spec2Model ----
(***************************************************************************)
(* project_mapper: the filtered directory walk (lib/utils.js getAllFiles,  *)
(* shouldIgnore) and the tree renderer (lib/markdown-generator.js          *)
(* generateTree), as a state machine over a directory tree on disk.        *)
(*                                                                         *)
(* Strings are sequences of one-character strings, so that the glob to     *)
(* regular-expression translation of shouldIgnore and path.join are        *)
(* computed character by character.                                        *)
(***************************************************************************)
EXTENDS Integers, Sequences, FiniteSets, TLC

VARIABLES
  tree,      \* the directory tree on disk: node i is tree[i], the root is node 0
  config,    \* the config object handed to the walk
  mode,      \* which walker was invoked: "idle", "files" (getAllFiles), "tree" (generateTree)
  stack,     \* the chain of suspended recursive invocations, innermost last
  outcome,   \* the promise of the outermost invocation
  fsLog,     \* the filesystem reads issued by the invocation with their results, in order
  previous,  \* the walker invoked by the generator before this one, and its promise
  gen,       \* the generator that awaits the walk: its package.json loop and its promise
  cli,       \* the init or map command: its options, the files it sees, what it has done
  loaded,    \* one loadConfig call: the parsed user file and the returned config
  probe      \* one shouldIgnore call: its arguments and its return value

vars == <<tree, config, mode, stack, outcome, fsLog, previous, gen, cli, loaded, probe>>

----------------------------------------------------------------------------
(* Bounds of the model *)

MaxNodes == 3        \* entries below the root in a generated tree
MaxDepthBound == 2   \* config.maxDepth ranges over 0..MaxDepthBound

----------------------------------------------------------------------------
(* Strings *)

S_a == <<"a">>
S_al == <<"a", ".", "l">>
S_src == <<"s", "r", "c">>
S_pkg == <<"p", "k", "g">>
S_index_js == <<"i", "n", "d", "e", "x", ".", "j", "s">>
S_util_js == <<"u", "t", "i", "l", ".", "j", "s">>
S_node_modules == <<"n", "o", "d", "e", "_", "m", "o", "d", "u", "l", "e", "s">>
S_env_example == <<".", "e", "n", "v", ".", "e", "x", "a", "m", "p", "l", "e">>
S_DS_Store == <<".", "D", "S", "_", "S", "t", "o", "r", "e">>
S_constructor == <<"c", "o", "n", "s", "t", "r", "u", "c", "t", "o", "r">>

Sep == "/"

\* path.join(relativePath, entry.name) for a relative path that is empty or
\* already normalised and a name that holds no separator
PathJoin(relativePath, name) ==
  IF relativePath = <<>> THEN name ELSE relativePath \o <<Sep>> \o name

RECURSIVE JoinAll(_)
\* path.join folded over a chain of names
JoinAll(names) ==
  IF names = <<>> THEN <<>>
  ELSE PathJoin(JoinAll(SubSeq(names, 1, Len(names) - 1)), names[Len(names)])

RECURSIVE Segments(_)
\* the separator-delimited segments of a relative path
Segments(p) ==
  IF p = <<>> THEN <<>>
  ELSE IF \E k \in 1..Len(p) : p[k] = Sep
       THEN LET k == CHOOSE k \in 1..Len(p) :
                       p[k] = Sep /\ \A j \in 1..(k - 1) : p[j] # Sep
            IN <<SubSeq(p, 1, k - 1)>> \o Segments(SubSeq(p, k + 1, Len(p)))
       ELSE <<p>>

----------------------------------------------------------------------------
(* Regular expressions: the part of the ECMAScript syntax that the          *)
(* characters of the model can spell                                        *)

Backslash == "\\"

RECURSIVE ReplaceDots(_)
\* pattern.replace(/\./g, "\\.")
ReplaceDots(s) ==
  IF s = <<>> THEN <<>>
  ELSE IF Head(s) = "." THEN <<Backslash, ".">> \o ReplaceDots(Tail(s))
       ELSE <<Head(s)>> \o ReplaceDots(Tail(s))

RECURSIVE ReplaceStars(_)
\* .replace(/\*/g, ".*")
ReplaceStars(s) ==
  IF s = <<>> THEN <<>>
  ELSE IF Head(s) = "*" THEN <<".", "*">> \o ReplaceStars(Tail(s))
       ELSE <<Head(s)>> \o ReplaceStars(Tail(s))

\* the source text handed to new RegExp by shouldIgnore
GlobRegexSource(pattern) ==
  <<"^">> \o ReplaceStars(ReplaceDots(pattern)) \o <<"$">>

RECURSIVE RegexTokens(_)
\* the pattern text cut into assertions, atoms, quantifiers and group openers
RegexTokens(src) ==
  IF src = <<>> THEN <<>>
  ELSE LET c == Head(src) IN
    IF c = Backslash
    THEN IF Len(src) = 1 THEN <<[kind |-> "bad", ch |-> c]>>
         ELSE <<[kind |-> "lit", ch |-> src[2]]>> \o RegexTokens(Tail(Tail(src)))
    ELSE <<[kind |-> CASE c = "^" -> "bol"
                       [] c = "$" -> "eol"
                       [] c = "." -> "any"
                       [] c \in {"*", "+"} -> "quant"
                       [] c = "(" -> "open"
                       [] c = ")" -> "close"
                       [] OTHER -> "lit",
             ch |-> c]>> \o RegexTokens(Tail(src))

\* new RegExp(src) throws a SyntaxError: a quantifier with nothing to repeat,
\* a group that is never closed or never opened, a trailing backslash
RegexSyntaxError(src) ==
  LET t == RegexTokens(src) IN
    \/ \E k \in 1..Len(t) : t[k].kind \in {"bad", "open", "close"}
    \/ \E k \in 1..Len(t) :
         /\ t[k].kind = "quant"
         /\ k = 1 \/ t[k - 1].kind \in {"quant", "bol", "eol"}

RECURSIVE MatchAt(_, _, _, _)
\* the tokens from i on match s from position j on (backtracking)
MatchAt(t, i, s, j) ==
  IF i > Len(t) THEN TRUE
  ELSE IF t[i].kind = "bol" THEN j = 1 /\ MatchAt(t, i + 1, s, j)
  ELSE IF t[i].kind = "eol" THEN j = Len(s) + 1 /\ MatchAt(t, i + 1, s, j)
  ELSE LET fits == /\ j <= Len(s)
                   /\ IF t[i].kind = "any" THEN s[j] # "\n" ELSE s[j] = t[i].ch
           q == IF i < Len(t) /\ t[i + 1].kind = "quant" THEN t[i + 1].ch ELSE "1"
       IN CASE q = "*" -> MatchAt(t, i + 2, s, j) \/ (fits /\ MatchAt(t, i, s, j + 1))
            [] q = "+" -> fits /\ (MatchAt(t, i + 2, s, j + 1) \/ MatchAt(t, i, s, j + 1))
            [] OTHER -> fits /\ MatchAt(t, i + 1, s, j + 1)

\* regex.test(s) for a regex without flags: a match starting anywhere
RegexTest(src, s) ==
  \E j \in 1..(Len(s) + 1) : MatchAt(RegexTokens(src), 1, s, j)

----------------------------------------------------------------------------
(* shouldIgnore (lib/utils.js) *)

RECURSIVE PatternScan_NameOnly(_, _, _)
\* mutant: the patterns are tested against the bare name only
PatternScan_NameOnly(patterns, name, relativePath) ==
  IF patterns = <<>> THEN "false"
  ELSE LET src == GlobRegexSource(Head(patterns)) IN
    IF RegexSyntaxError(src) THEN "SyntaxError"
    ELSE IF RegexTest(src, name) THEN "true"
    ELSE PatternScan_NameOnly(Tail(patterns), name, relativePath)

RECURSIVE PatternScan(_, _, _)
\* config.ignore.patterns.some(...): the patterns are tried in order, the scan
\* stops at the first match, and new RegExp may throw on the way
PatternScan(patterns, name, relativePath) ==
  IF patterns = <<>> THEN "false"
  ELSE LET src == GlobRegexSource(Head(patterns)) IN
    IF RegexSyntaxError(src) THEN "SyntaxError"
    ELSE IF RegexTest(src, name) \/ RegexTest(src, relativePath) THEN "true"
    ELSE PatternScan(Tail(patterns), name, relativePath)

\* "true" or "false" for the value returned; when it throws, "SyntaxError"
\* for new RegExp and "TypeError" for a property read of undefined, which is
\* what config.ignore or config.ignore.patterns is when the config lacks it
ShouldIgnore(name, isDirectory, relativePath, cfg) ==
  IF "ignore" \notin DOMAIN cfg THEN "TypeError"
  ELSE LET patterns == IF isDirectory THEN cfg.ignore.directories ELSE cfg.ignore.files
       IN IF name \in patterns THEN "true"
          ELSE IF "patterns" \notin DOMAIN cfg.ignore THEN "TypeError"
          ELSE PatternScan(cfg.ignore.patterns, name, relativePath)

----------------------------------------------------------------------------
(* The directory tree and the config *)

Names == {S_a, S_al}

P_star_l == <<"*", ".", "l">>
P_a_slash_star == <<"a", "/", "*">>
P_open == <<"(">>

WalkPatterns == {P_star_l, P_a_slash_star, P_open}

RootDir == <<"/", "r">>

\* an entry below the root: its parent directory (0 is the root), its name,
\* what Dirent.isDirectory() answers, and what fs.stat finds at its path
Dirents(n) ==
  { [parent |-> p, name |-> nm, isDirectory |-> b,
     target |-> IF b THEN "directory" ELSE "file"] :
      p \in 0..(n - 1), nm \in Names, b \in BOOLEAN }

\* node numbers follow the order in which readdir delivers the entries,
\* level by level
WellFormedTree(t) ==
  /\ \A i \in DOMAIN t :
       /\ t[i].parent < i
       /\ t[i].parent # 0 => t[t[i].parent].isDirectory
  /\ \A i, j \in DOMAIN t :
       /\ i < j => t[i].parent <= t[j].parent
       /\ (i # j /\ t[i].parent = t[j].parent) => t[i].name # t[j].name

GeneratedTrees ==
  UNION { {t \in [1..n -> Dirents(n)] : WellFormedTree(t)} : n \in 0..MaxNodes }

\* section 8 of the specification: src/index.js, src/util.js,
\* node_modules/pkg/index.js and .env.example
ExampleTree ==
  << [parent |-> 0, name |-> S_env_example, isDirectory |-> FALSE,
      target |-> "file"],
     [parent |-> 0, name |-> S_node_modules, isDirectory |-> TRUE,
      target |-> "directory"],
     [parent |-> 0, name |-> S_src, isDirectory |-> TRUE,
      target |-> "directory"],
     [parent |-> 2, name |-> S_pkg, isDirectory |-> TRUE,
      target |-> "directory"],
     [parent |-> 3, name |-> S_util_js, isDirectory |-> FALSE,
      target |-> "file"],
     [parent |-> 3, name |-> S_index_js, isDirectory |-> FALSE,
      target |-> "file"],
     [parent |-> 4, name |-> S_index_js, isDirectory |-> FALSE,
      target |-> "file"] >>

\* a root that holds a symbolic link to a directory and a file: for a link
\* Dirent.isDirectory() is false, while fs.stat follows the link
LinkTree ==
  << [parent |-> 0, name |-> S_a, isDirectory |-> FALSE, target |-> "directory"],
     [parent |-> 0, name |-> S_al, isDirectory |-> FALSE, target |-> "file"] >>

DefaultMaxDepth == 8

ExampleConfig ==
  [ignore |-> [directories |-> {S_node_modules}, files |-> {S_DS_Store},
               patterns |-> <<>>],
   maxDepth |-> DefaultMaxDepth,
   includeDescriptions |-> TRUE,
   directoryDescriptions |-> <<>>,
   filePatternDescriptions |-> <<>>]

\* a root that holds a directory named constructor and a file
ConstructorTree ==
  << [parent |-> 0, name |-> S_constructor, isDirectory |-> TRUE,
      target |-> "directory"],
     [parent |-> 0, name |-> S_al, isDirectory |-> FALSE, target |-> "file"] >>

Ignore(directories, files, patterns) ==
  [directories |-> directories, files |-> files, patterns |-> patterns]

\* the ignore policies of the generated configs: no rule, one literal
\* directory name, one literal file name, one pattern, and mixtures
Policies ==
  {Ignore({}, {}, <<>>)}
    \cup {Ignore({n}, {}, <<>>) : n \in Names}
    \cup {Ignore({}, {n}, <<>>) : n \in Names}
    \cup {Ignore({}, {}, <<p>>) : p \in WalkPatterns}
    \cup {Ignore({S_al}, {S_a}, <<P_a_slash_star>>),
          Ignore({}, {S_DS_Store}, <<P_star_l, P_open>>)}

GeneratedConfigs ==
  { [ignore |-> ig, maxDepth |-> d,
      includeDescriptions |-> TRUE,
      directoryDescriptions |-> <<>>,
      filePatternDescriptions |-> <<>>] : ig \in Policies, d \in 0..MaxDepthBound }

\* description texts
V_dir == <<"d", "i", "r">>
V_nested == <<"n", "e", "s", "t", "e", "d">>
V_first == <<"f", "i", "r", "s", "t">>
V_ext == <<"e", "x", "t">>
V_any == <<"a", "n", "y">>

\* keys of filePatternDescriptions: no regular expression, a path ending in
\* .l, a path holding an a
K_open == <<"(">>
K_ext == <<Backslash, ".", "l", "$">>
K_any == <<"a">>

Described(key, value) == [key |-> key, value |-> value]

DirectoryTable ==
  <<Described(S_a, V_dir), Described(PathJoin(S_a, S_a), V_nested)>>

\* configs with description tables: a malformed key ahead of two valid ones,
\* the same with descriptions switched off, and the valid keys the other way
\* round
DescribedConfigs ==
  { [ignore |-> Ignore({}, {}, <<>>), maxDepth |-> MaxDepthBound,
     includeDescriptions |-> inc,
     directoryDescriptions |-> DirectoryTable,
     filePatternDescriptions |->
       <<Described(K_open, V_first), Described(K_ext, V_ext), Described(K_any, V_any)>>]
      : inc \in BOOLEAN }
    \cup
  { [ignore |-> Ignore({}, {}, <<>>), maxDepth |-> MaxDepthBound,
     includeDescriptions |-> TRUE,
     directoryDescriptions |-> <<>>,
     filePatternDescriptions |->
       <<Described(K_any, V_any), Described(K_ext, V_ext)>>] }

RECURSIVE ListingFrom(_, _, _)
ListingFrom(t, d, k) ==
  IF k > Len(t) THEN <<>>
  ELSE (IF t[k].parent = d THEN <<k>> ELSE <<>>) \o ListingFrom(t, d, k + 1)

\* fs.readdir(dir, {withFileTypes: true}): the children in delivery order
Readdir(t, d) == ListingFrom(t, d, 1)

----------------------------------------------------------------------------
(* entries.sort of generateTree *)

\* the characters of the model in the order String.prototype.localeCompare
\* ranks them: punctuation before letters
Collation == <<"_", ".", "a", "b", "c", "d", "e", "g", "i", "j", "k", "l", "m",
               "n", "o", "p", "r", "s", "t", "u", "v", "x">>

CharRank(c) == CHOOSE k \in 1..Len(Collation) : Collation[k] = c

RECURSIVE LocaleCompare(_, _)
\* a.localeCompare(b): negative, zero or positive
LocaleCompare(a, b) ==
  IF a = <<>> THEN (IF b = <<>> THEN 0 ELSE -1)
  ELSE IF b = <<>> THEN 1
  ELSE IF Head(a) = Head(b) THEN LocaleCompare(Tail(a), Tail(b))
  ELSE IF CharRank(Head(a)) < CharRank(Head(b)) THEN -1 ELSE 1

\* the comparator handed to entries.sort: directories first, then by name
CompareEntries(t, a, b) ==
  IF t[a].isDirectory /\ ~t[b].isDirectory THEN -1
  ELSE IF ~t[a].isDirectory /\ t[b].isDirectory THEN 1
  ELSE LocaleCompare(t[a].name, t[b].name)

RECURSIVE InsertEntry(_, _, _)
InsertEntry(t, e, sorted) ==
  IF sorted = <<>> THEN <<e>>
  ELSE IF CompareEntries(t, e, Head(sorted)) < 0 THEN <<e>> \o sorted
  ELSE <<Head(sorted)>> \o InsertEntry(t, e, Tail(sorted))

\* mutant: the listing is rendered in the order it was delivered
SortEntries_Unsorted(t, entries) == entries

RECURSIVE SortEntries(_, _)
\* entries.sort(comparator): a stable sort, here by insertion from the back
SortEntries(t, entries) ==
  IF entries = <<>> THEN <<>>
  ELSE InsertEntry(t, Head(entries), SortEntries(t, Tail(entries)))

----------------------------------------------------------------------------
(* The walkers as a chain of suspended invocations *)

NoOutcome == [status |-> "none", value |-> <<>>, error |-> "none"]

NoPrevious == [mode |-> "none", outcome |-> NoOutcome]

NoGen == [fn |-> "none"]

NoCli == [command |-> "none"]

NoLoaded == [result |-> "none"]

NoProbe == [name |-> <<>>, isDirectory |-> FALSE, relativePath |-> <<>>,
            ignore |-> [directories |-> {}, files |-> {}, patterns |-> <<>>],
            result |-> "none"]

\* what a filesystem read can answer
ReadResults == {"ok", "ENOENT", "EACCES"}

Top == stack[Len(stack)]

Callers == SubSeq(stack, 1, Len(stack) - 1)

\* mutant: a failed read is tried again
Reject_Retry(err) ==
  /\ stack' = stack
  /\ outcome' = outcome

\* mutant: the error is replaced by a generic one on its way out
Reject_Generic(err) ==
  /\ stack' = <<>>
  /\ outcome' = [status |-> "rejected", value |-> <<>>, error |-> "Error"]

\* an exception leaves every awaiting invocation: none of them catches
Reject(err) ==
  /\ stack' = <<>>
  /\ outcome' = [status |-> "rejected", value |-> <<>>, error |-> err]

\* mutant: the caller puts the value in front of what it has collected
Deliver_Prepend(callers, value) ==
  IF callers = <<>>
  THEN /\ stack' = <<>>
       /\ outcome' = [status |-> "resolved", value |-> value, error |-> "none"]
  ELSE /\ stack' = [callers EXCEPT ![Len(callers)] =
                      [@ EXCEPT !.results = value \o @, !.i = @ + 1]]
       /\ outcome' = outcome

\* mutant: the caller appends the value twice
Deliver_Twice(callers, value) ==
  IF callers = <<>>
  THEN /\ stack' = <<>>
       /\ outcome' = [status |-> "resolved", value |-> value, error |-> "none"]
  ELSE /\ stack' = [callers EXCEPT ![Len(callers)] =
                      [@ EXCEPT !.results = @ \o value \o value, !.i = @ + 1]]
       /\ outcome' = outcome

\* a value comes back to the awaiting caller, which appends it to its own
\* result and moves to its next entry; the outermost caller gets the promise
Deliver(callers, value) ==
  IF callers = <<>>
  THEN /\ stack' = <<>>
       /\ outcome' = [status |-> "resolved", value |-> value, error |-> "none"]
  ELSE /\ stack' = [callers EXCEPT ![Len(callers)] =
                      [@ EXCEPT !.results = @ \o value, !.i = @ + 1]]
       /\ outcome' = outcome

\* mutant: the depth check cuts one level early
Enter_DepthEarly(fn, callers, d, dirPath, depth, prefix, relativePath, read) ==
  IF depth >= config.maxDepth
  THEN /\ read = "ok"
       /\ Deliver(callers, <<>>)
       /\ fsLog' = fsLog
  ELSE /\ fsLog' = Append(fsLog, [op |-> "readdir", node |-> d, result |-> read])
       /\ IF read = "ok"
          THEN /\ stack' = Append(callers,
                     [dir |-> d, dirPath |-> dirPath, depth |-> depth,
                      prefix |-> prefix, relativePath |-> relativePath,
                      entries |-> IF fn = "tree" THEN SortEntries(tree, Readdir(tree, d))
                                  ELSE Readdir(tree, d),
                      i |-> 1, results |-> <<>>])
               /\ outcome' = outcome
          ELSE Reject(read)

\* mutant: the depth check cuts one level late
Enter_DepthLate(fn, callers, d, dirPath, depth, prefix, relativePath, read) ==
  IF depth > config.maxDepth + 1
  THEN /\ read = "ok"
       /\ Deliver(callers, <<>>)
       /\ fsLog' = fsLog
  ELSE /\ fsLog' = Append(fsLog, [op |-> "readdir", node |-> d, result |-> read])
       /\ IF read = "ok"
          THEN /\ stack' = Append(callers,
                     [dir |-> d, dirPath |-> dirPath, depth |-> depth,
                      prefix |-> prefix, relativePath |-> relativePath,
                      entries |-> IF fn = "tree" THEN SortEntries(tree, Readdir(tree, d))
                                  ELSE Readdir(tree, d),
                      i |-> 1, results |-> <<>>])
               /\ outcome' = outcome
          ELSE Reject(read)

\* mutant: the result is collected in a list that outlives the invocation
Enter_SharedResults(fn, callers, d, dirPath, depth, prefix, relativePath, read) ==
  IF depth > config.maxDepth
  THEN /\ read = "ok"
       /\ Deliver(callers, <<>>)
       /\ fsLog' = fsLog
  ELSE /\ fsLog' = Append(fsLog, [op |-> "readdir", node |-> d, result |-> read])
       /\ IF read = "ok"
          THEN /\ stack' = Append(callers,
                     [dir |-> d, dirPath |-> dirPath, depth |-> depth,
                      prefix |-> prefix, relativePath |-> relativePath,
                      entries |-> IF fn = "tree" THEN SortEntries(tree, Readdir(tree, d))
                                  ELSE Readdir(tree, d),
                      i |-> 1,
                      results |-> IF callers = <<>> /\ previous.mode = fn
                                  THEN previous.outcome.value ELSE <<>>])
               /\ outcome' = outcome
          ELSE Reject(read)

\* the start of one invocation of getAllFiles or generateTree on directory d:
\* the depth check, then the readdir it awaits (and, for generateTree, the
\* sort); a depth is never greater than undefined, which is what
\* config.maxDepth is when the config lacks it
Enter(fn, callers, d, dirPath, depth, prefix, relativePath, read) ==
  IF "maxDepth" \in DOMAIN config /\ depth > config.maxDepth
  THEN /\ read = "ok"
       /\ Deliver(callers, <<>>)
       /\ fsLog' = fsLog
  ELSE /\ fsLog' = Append(fsLog, [op |-> "readdir", node |-> d, result |-> read])
       /\ IF read = "ok"
          THEN /\ stack' = Append(callers,
                     [dir |-> d, dirPath |-> dirPath, depth |-> depth,
                      prefix |-> prefix, relativePath |-> relativePath,
                      entries |-> IF fn = "tree" THEN SortEntries(tree, Readdir(tree, d))
                                  ELSE Readdir(tree, d),
                      i |-> 1, results |-> <<>>])
               /\ outcome' = outcome
          ELSE Reject(read)

InLoop == stack # <<>> /\ Top.i <= Len(Top.entries)

Entry == Top.entries[Top.i]

EntryRelativePath == PathJoin(Top.relativePath, tree[Entry].name)

EntryPath == PathJoin(Top.dirPath, tree[Entry].name)

\* mutant: the bare name is passed where the relative path belongs
EntryIgnored_BareName ==
  ShouldIgnore(tree[Entry].name, tree[Entry].isDirectory, tree[Entry].name, config)

\* mutant: every entry is checked as a file
EntryIgnored_AsFile ==
  ShouldIgnore(tree[Entry].name, FALSE, EntryRelativePath, config)

EntryIgnored ==
  ShouldIgnore(tree[Entry].name, tree[Entry].isDirectory, EntryRelativePath, config)

\* getAllFiles(rootDir, config) is called
GetAllFilesCall(read) ==
  /\ mode = "idle"
  /\ mode' = "files"
  /\ Enter("files", <<>>, 0, RootDir, 0, <<>>, <<>>, read)
  /\ UNCHANGED <<tree, config, previous, gen, cli, loaded, probe>>

\* mutant: the loop does not move on from an ignored entry
GetAllFilesSkip_Stuck ==
  /\ mode = "files" /\ InLoop
  /\ EntryIgnored = "true"
  /\ stack' = stack
  /\ UNCHANGED <<tree, config, previous, gen, cli, loaded, mode, outcome, fsLog, probe>>

\* mutant: the walker remembers the name it has skipped in the config
GetAllFilesSkip_Memo ==
  /\ mode = "files" /\ InLoop
  /\ EntryIgnored = "true"
  /\ stack' = [stack EXCEPT ![Len(stack)].i = @ + 1]
  /\ config' = [config EXCEPT !.ignore.files = @ \cup {tree[Entry].name}]
  /\ UNCHANGED <<tree, previous, gen, cli, loaded, mode, outcome, fsLog, probe>>

\* the entry is ignored: continue
GetAllFilesSkip ==
  /\ mode = "files" /\ InLoop
  /\ EntryIgnored = "true"
  /\ stack' = [stack EXCEPT ![Len(stack)].i = @ + 1]
  /\ UNCHANGED <<tree, config, previous, gen, cli, loaded, mode, outcome, fsLog, probe>>

\* shouldIgnore throws
GetAllFilesThrow ==
  /\ mode = "files" /\ InLoop
  /\ EntryIgnored \in {"SyntaxError", "TypeError"}
  /\ Reject(EntryIgnored)
  /\ UNCHANGED <<tree, config, previous, gen, cli, loaded, mode, fsLog, probe>>

\* the entry is a directory: the recursive call
GetAllFilesRecurse(read) ==
  /\ mode = "files" /\ InLoop
  /\ EntryIgnored = "false"
  /\ tree[Entry].isDirectory
  /\ Enter("files", stack, Entry, EntryPath, Top.depth + 1, <<>>, EntryRelativePath, read)
  /\ UNCHANGED <<tree, config, previous, gen, cli, loaded, mode, probe>>

\* mutant: a file is pushed whether it is ignored or not
GetAllFilesStat_Unfiltered(read) ==
  /\ mode = "files" /\ InLoop
  /\ ~tree[Entry].isDirectory
  /\ fsLog' = Append(fsLog, [op |-> "stat", node |-> Entry, result |-> read])
  /\ IF read = "ok"
     THEN /\ stack' = [stack EXCEPT ![Len(stack)] =
                 [@ EXCEPT !.results = Append(@, [path |-> EntryPath,
                                                  relativePath |-> EntryRelativePath,
                                                  stats |-> [ino |-> Entry,
                                                            isDirectory |->
                                                              tree[Entry].target = "directory"]]),
                           !.i = @ + 1]]
          /\ outcome' = outcome
     ELSE Reject(read)
  /\ UNCHANGED <<tree, config, previous, gen, cli, loaded, mode, probe>>

\* the entry is a file: fs.stat, then the record is pushed
GetAllFilesStat(read) ==
  /\ mode = "files" /\ InLoop
  /\ EntryIgnored = "false"
  /\ ~tree[Entry].isDirectory
  /\ fsLog' = Append(fsLog, [op |-> "stat", node |-> Entry, result |-> read])
  /\ IF read = "ok"
     THEN /\ stack' = [stack EXCEPT ![Len(stack)] =
                 [@ EXCEPT !.results = Append(@, [path |-> EntryPath,
                                                  relativePath |-> EntryRelativePath,
                                                  stats |-> [ino |-> Entry,
                                                            isDirectory |->
                                                              tree[Entry].target = "directory"]]),
                           !.i = @ + 1]]
          /\ outcome' = outcome
     ELSE Reject(read)
  /\ UNCHANGED <<tree, config, previous, gen, cli, loaded, mode, probe>>

\* the loop is over: return results
GetAllFilesReturn ==
  /\ mode = "files" /\ stack # <<>> /\ ~InLoop
  /\ Deliver(Callers, Top.results)
  /\ UNCHANGED <<tree, config, previous, gen, cli, loaded, mode, fsLog, probe>>

----------------------------------------------------------------------------
(* generateTree (lib/markdown-generator.js) *)

\* the box-drawing glyphs of the source, spelled in ASCII: + for the corner,
\* | for the vertical bar and the tee, - for the horizontal bar
LastConnector == "+-- "
MidConnector == "|-- "
LastIndent == "    "
MidIndent == "|   "

\* String(Object), the text a template literal makes of Object.prototype.constructor
V_native == <<"f", "u", "n", "c", "t", "i", "o", "n", " ", "O", "b", "j", "e", "c", "t">>

\* what a property read finds on Object.prototype, which every table parsed
\* from JSON inherits from; <<>> stands for undefined
InheritedProperty(key) == IF key = S_constructor THEN V_native ELSE <<>>

RECURSIVE Lookup(_, _)
\* table[key] for a table given as its entries in insertion order: the own
\* property if there is one, the inherited one otherwise
Lookup(table, key) ==
  IF table = <<>> THEN InheritedProperty(key)
  ELSE IF Head(table).key = key THEN Head(table).value
  ELSE Lookup(Tail(table), key)

RECURSIVE FirstPatternDescription_StopAtInvalid(_, _)
\* mutant: the loop ends at the first key that is no regular expression
FirstPatternDescription_StopAtInvalid(table, relativePath) ==
  IF table = <<>> \/ RegexSyntaxError(Head(table).key) THEN <<>>
  ELSE IF RegexTest(Head(table).key, relativePath) THEN Head(table).value
  ELSE FirstPatternDescription_StopAtInvalid(Tail(table), relativePath)

RECURSIVE FirstPatternDescription(_, _)
\* the loop over Object.entries(config.filePatternDescriptions): a key that is
\* not a regular expression is skipped with a warning
FirstPatternDescription(table, relativePath) ==
  IF table = <<>> THEN <<>>
  ELSE IF /\ ~RegexSyntaxError(Head(table).key)
          /\ RegexTest(Head(table).key, relativePath)
       THEN Head(table).value
  ELSE FirstPatternDescription(Tail(table), relativePath)

RECURSIVE Warned(_, _)
\* the keys console.warn is called with by that loop
Warned(table, relativePath) ==
  IF table = <<>> THEN <<>>
  ELSE IF RegexSyntaxError(Head(table).key)
       THEN <<Head(table).key>> \o Warned(Tail(table), relativePath)
  ELSE IF RegexTest(Head(table).key, relativePath) THEN <<>>
  ELSE Warned(Tail(table), relativePath)

\* <<>> stands for null
GetDescription(relativePath, isDirectory, cfg) ==
  IF isDirectory /\ Lookup(cfg.directoryDescriptions, relativePath) # <<>>
  THEN Lookup(cfg.directoryDescriptions, relativePath)
  ELSE IF ~isDirectory
       THEN FirstPatternDescription(cfg.filePatternDescriptions, relativePath)
       ELSE <<>>

EntryIsLast == Top.i = Len(Top.entries)

\* if (config.includeDescriptions): undefined, which is what the property is
\* when the config lacks it, counts as false
IncludeDescriptions ==
  "includeDescriptions" \in DOMAIN config /\ config.includeDescriptions

\* the line of the current entry: prefix, connector, name and annotation,
\* together with the relative path it was built for and the warnings logged
\* while it was built
EntryLine ==
  [prefix |-> Top.prefix,
   connector |-> IF EntryIsLast THEN LastConnector ELSE MidConnector,
   name |-> tree[Entry].name,
   description |-> IF IncludeDescriptions
                   THEN GetDescription(EntryRelativePath, tree[Entry].isDirectory, config)
                   ELSE <<>>,
   warned |-> IF IncludeDescriptions /\ ~tree[Entry].isDirectory
              THEN Warned(config.filePatternDescriptions, EntryRelativePath)
              ELSE <<>>,
   relativePath |-> EntryRelativePath]

\* mutant: the children are always drawn under a bar
ChildPrefix_AlwaysBar == Append(Top.prefix, MidIndent)

ChildPrefix == Append(Top.prefix, IF EntryIsLast THEN LastIndent ELSE MidIndent)

\* generateTree(rootDir, config) is called by generateMarkdownTree
GenerateTreeCall(read) ==
  /\ mode = "idle"
  /\ mode' = "tree"
  /\ Enter("tree", <<>>, 0, RootDir, 0, <<>>, <<>>, read)
  /\ UNCHANGED <<tree, config, previous, gen, cli, loaded, probe>>

\* the entry is ignored: continue
GenerateTreeSkip ==
  /\ mode = "tree" /\ InLoop
  /\ EntryIgnored = "true"
  /\ stack' = [stack EXCEPT ![Len(stack)].i = @ + 1]
  /\ UNCHANGED <<tree, config, previous, gen, cli, loaded, mode, outcome, fsLog, probe>>

\* shouldIgnore throws
GenerateTreeThrow ==
  /\ mode = "tree" /\ InLoop
  /\ EntryIgnored \in {"SyntaxError", "TypeError"}
  /\ Reject(EntryIgnored)
  /\ UNCHANGED <<tree, config, previous, gen, cli, loaded, mode, fsLog, probe>>

\* the entry is a file: its line is added
GenerateTreeFile ==
  /\ mode = "tree" /\ InLoop
  /\ EntryIgnored = "false"
  /\ ~tree[Entry].isDirectory
  /\ stack' = [stack EXCEPT ![Len(stack)] =
                 [@ EXCEPT !.results = Append(@, EntryLine), !.i = @ + 1]]
  /\ UNCHANGED <<tree, config, previous, gen, cli, loaded, mode, outcome, fsLog, probe>>

\* the entry is a directory: its line is added, then the recursive call
GenerateTreeRecurse(read) ==
  /\ mode = "tree" /\ InLoop
  /\ EntryIgnored = "false"
  /\ tree[Entry].isDirectory
  /\ Enter("tree",
           [stack EXCEPT ![Len(stack)].results = Append(@, EntryLine)],
           Entry, EntryPath, Top.depth + 1, ChildPrefix, EntryRelativePath, read)
  /\ UNCHANGED <<tree, config, previous, gen, cli, loaded, mode, probe>>

\* the loop is over: return result
GenerateTreeReturn ==
  /\ mode = "tree" /\ stack # <<>> /\ ~InLoop
  /\ Deliver(Callers, Top.results)
  /\ UNCHANGED <<tree, config, previous, gen, cli, loaded, mode, fsLog, probe>>

----------------------------------------------------------------------------
(* The specification of the walk *)

Init ==
  /\ \/ /\ tree \in GeneratedTrees
        /\ config \in GeneratedConfigs
     \/ /\ tree = ExampleTree
        /\ config = ExampleConfig
     \/ /\ tree = LinkTree
        /\ config \in GeneratedConfigs
     \/ /\ tree \in GeneratedTrees \cup {ConstructorTree}
        /\ config \in DescribedConfigs
     \/ /\ tree = ConstructorTree
        /\ config = ExampleConfig
  /\ mode = "idle"
  /\ stack = <<>>
  /\ outcome = NoOutcome
  /\ fsLog = <<>>
  /\ previous = NoPrevious
  /\ gen = NoGen
  /\ cli = NoCli
  /\ loaded = NoLoaded
  /\ probe = NoProbe

Next ==
  \/ \E read \in ReadResults : GetAllFilesCall(read)
  \/ GetAllFilesSkip
  \/ GetAllFilesThrow
  \/ \E read \in ReadResults : GetAllFilesRecurse(read)
  \/ \E read \in ReadResults : GetAllFilesStat(read)
  \/ GetAllFilesReturn
  \/ \E read \in ReadResults : GenerateTreeCall(read)
  \/ GenerateTreeSkip
  \/ GenerateTreeThrow
  \/ GenerateTreeFile
  \/ \E read \in ReadResults : GenerateTreeRecurse(read)
  \/ GenerateTreeReturn

Spec == Init /\ [][Next]_vars

----------------------------------------------------------------------------
(* Two generators in a row, as the map command runs them: each awaits its *)
(* own walk of the same root with the same config                          *)

\* the generator has the result of its walk, and the map command goes on to
\* the next generator (it also goes on after a failure the generator caught;
\* the walk that follows is the same walk of the same root, so only the
\* continuation after a result is kept)
NextGenerator ==
  /\ outcome.status = "resolved"
  /\ previous = NoPrevious
  /\ previous' = [mode |-> mode, outcome |-> outcome]
  /\ mode' = "idle"
  /\ outcome' = NoOutcome
  /\ fsLog' = <<>>
  /\ UNCHANGED <<tree, config, stack, gen, cli, loaded, probe>>

NextMap == Next \/ NextGenerator

SpecMap == Init /\ [][NextMap]_vars

----------------------------------------------------------------------------
(* The map command (bin/project-mapper.js): the config file is parsed and   *)
(* handed to the generators as it is, the output directory is made, the     *)
(* outputs are selected, and the six generators are tried in turn           *)

S_star_log == <<"*", ".", "l", "o", "g">>
S_a_log == <<"a", ".", "l", "o", "g">>
S_package_json == <<"p", "a", "c", "k", "a", "g", "e", ".", "j", "s", "o", "n">>

GeneratorOrder ==
  <<"markdownTree", "configFiles", "envVarsDocs", "dependencyGraph",
    "architecture", "metadataJson">>

\* the example configuration of the README, as JSON.parse returns it
ReadmeConfig ==
  [projectInfo |-> [title |-> "My Project"],
   output |-> [markdownTree |-> [enabled |-> TRUE, includePrinciples |-> TRUE],
               configFiles |-> [enabled |-> TRUE]],
   ignore |-> [directories |-> {S_node_modules}, files |-> {S_DS_Store, S_star_log}]]

\* defaultConfig, which is also what the file written by init parses to
DefaultConfig ==
  [projectInfo |-> [title |-> "Project Structure"],
   output |-> [markdownTree |-> [enabled |-> TRUE, includePrinciples |-> TRUE],
               configFiles |-> [enabled |-> TRUE],
               dependencyGraph |-> [enabled |-> FALSE],
               envVarsDocs |-> [enabled |-> FALSE],
               architecture |-> [enabled |-> FALSE],
               metadataJson |-> [enabled |-> FALSE]],
   ignore |-> [directories |-> {S_node_modules},
               files |-> {S_DS_Store, S_star_log},
               patterns |-> <<>>],
   maxDepth |-> DefaultMaxDepth,
   includeDescriptions |-> TRUE,
   directoryDescriptions |-> <<>>,
   filePatternDescriptions |-> <<>>,
   principles |-> <<>>,
   changelog |-> <<>>]

\* what is found at the config path
ConfigFiles == {"missing", "malformed", "readme", "default"}

FileConfig(file) == IF file = "readme" THEN ReadmeConfig ELSE DefaultConfig

NoConfig == [none |-> TRUE]

\* --only after split(",") and trim; <<>> for the empty default
OnlyOptions ==
  { <<>>,
    <<"markdown", "configFiles">>,
    <<"metadataJson", "envVarsDocs">>,
    <<"architecture", "dependencyGraph", "markdownTree">>,
    <<"markdown", "configFiles", "envVarsDocs", "dependencyGraph",
      "architecture", "metadataJson">> }

CliTrees ==
  { <<[parent |-> 0, name |-> S_a, isDirectory |-> FALSE, target |-> "file"]>>,
    <<[parent |-> 0, name |-> S_DS_Store, isDirectory |-> FALSE, target |-> "file"]>>,
    <<[parent |-> 0, name |-> S_a_log, isDirectory |-> FALSE, target |-> "file"]>> }

InitCli ==
  /\ tree \in CliTrees
  /\ config = NoConfig
  /\ mode = "idle"
  /\ stack = <<>>
  /\ outcome = NoOutcome
  /\ fsLog = <<>>
  /\ previous = NoPrevious
  /\ gen = NoGen
  /\ loaded = NoLoaded
  /\ probe = NoProbe
  /\ \E only \in OnlyOptions, file \in ConfigFiles, exists \in BOOLEAN :
       cli = [command |-> "map", pc |-> "load", slot |-> 0, only |-> only,
              configFile |-> file, outputDir |-> exists, outputTypes |-> {},
              running |-> "none", log |-> <<>>]

Range(seq) == {seq[k] : k \in DOMAIN seq}

\* the config is loaded: a missing file and a file that does not parse end
\* the command; otherwise the parsed file is the config
MapLoadConfig ==
  /\ cli.command = "map" /\ cli.pc = "load"
  /\ IF cli.configFile \in {"missing", "malformed"}
     THEN /\ cli' = [cli EXCEPT !.pc = "returned"]
          /\ config' = config
     ELSE /\ cli' = [cli EXCEPT !.pc = "mkdir"]
          /\ config' = FileConfig(cli.configFile)
  /\ UNCHANGED <<tree, mode, stack, outcome, fsLog, previous, gen, loaded, probe>>

\* await ensureDirectoryExists(outputDir): an existing directory is left,
\* a missing one is made; a failing mkdir is caught by nobody
MapEnsureDirectory(made) ==
  /\ cli.command = "map" /\ cli.pc = "mkdir"
  /\ IF cli.outputDir
     THEN made = "ok" /\ cli' = [cli EXCEPT !.pc = "select"]
     ELSE IF made = "ok"
          THEN cli' = [cli EXCEPT !.pc = "select", !.outputDir = TRUE]
          ELSE cli' = [cli EXCEPT !.pc = "crashed"]
  /\ UNCHANGED <<tree, config, previous, gen, loaded, mode, stack, outcome, fsLog, probe>>

\* the outputs are taken from --only if it is given, from the enabled flags
\* of config.output otherwise
MapSelect ==
  /\ cli.command = "map" /\ cli.pc = "select"
  /\ cli' = [cli EXCEPT
               !.pc = "generators",
               !.slot = 1,
               !.outputTypes =
                 IF cli.only # <<>> THEN Range(cli.only)
                 ELSE {key \in DOMAIN config.output : config.output[key].enabled}]
  /\ UNCHANGED <<tree, config, previous, gen, loaded, mode, stack, outcome, fsLog, probe>>

\* the generator whose turn it is
Slot == GeneratorOrder[cli.slot]

InSlot == cli.command = "map" /\ cli.pc = "generators" /\ cli.slot <= Len(GeneratorOrder)

\* mutant: markdown is not accepted for markdownTree
Selected_NoAlias == Slot \in cli.outputTypes

\* the condition of the if around the generator of the slot
Selected ==
  \/ Slot \in cli.outputTypes
  \/ Slot = "markdownTree" /\ "markdown" \in cli.outputTypes

\* the if is false: on to the next one
MapSkipGenerator ==
  /\ InSlot /\ cli.running = "none"
  /\ ~Selected
  /\ cli' = [cli EXCEPT !.slot = @ + 1]
  /\ UNCHANGED <<tree, config, previous, gen, loaded, mode, stack, outcome, fsLog, probe>>

\* the generator is called and awaited
GeneratorBegin ==
  /\ InSlot /\ cli.running = "none"
  /\ Selected
  /\ cli' = [cli EXCEPT !.running = Slot,
                        !.log = Append(@, [generator |-> Slot, event |-> "started"])]
  /\ UNCHANGED <<tree, config, previous, gen, loaded, mode, stack, outcome, fsLog, probe>>

\* the generator reads a property of an output section the config lacks
\* before it walks: config.output.configFiles.includeFiles,
\* config.output.envVarsDocs.patterns
ThrowsBeforeWalk(g) ==
  g \in {"configFiles", "envVarsDocs"} /\ g \notin DOMAIN config.output

\* the generator reads a property of undefined after its walk:
\* config.principles.length, config.output.metadataJson.filename
ThrowsAfterWalk(g) ==
  \/ /\ g = "markdownTree"
     /\ \/ "markdownTree" \notin DOMAIN config.output
        \/ /\ config.output.markdownTree.includePrinciples
           /\ "principles" \notin DOMAIN config
  \/ g = "metadataJson" /\ "metadataJson" \notin DOMAIN config.output

\* mutant: an error ends the command
Finish_AbortOnFailure(status) ==
  /\ cli' = [cli EXCEPT !.running = "none",
                        !.slot = IF status = "failed" THEN Len(GeneratorOrder) + 1
                                 ELSE @ + 1,
                        !.log = Append(@, [generator |-> cli.running, event |-> status])]
  /\ mode' = "idle"
  /\ outcome' = NoOutcome
  /\ fsLog' = <<>>
  /\ UNCHANGED <<tree, config, previous, gen, loaded, stack, probe>>

\* the try block of generate...Output is left: the file was written, or the
\* error of the walk, of the generator or of writeFile was caught and reported
Finish(status) ==
  /\ cli' = [cli EXCEPT !.running = "none",
                        !.slot = @ + 1,
                        !.log = Append(@, [generator |-> cli.running, event |-> status])]
  /\ mode' = "idle"
  /\ outcome' = NoOutcome
  /\ fsLog' = <<>>
  /\ UNCHANGED <<tree, config, previous, gen, loaded, stack, probe>>

GeneratorThrowEarly ==
  /\ InSlot /\ cli.running # "none" /\ mode = "idle"
  /\ ThrowsBeforeWalk(cli.running)
  /\ Finish("failed")

\* the walk of the generator is over, the document is made and written
GeneratorEnd(written) ==
  /\ InSlot /\ cli.running # "none"
  /\ outcome.status \in {"resolved", "rejected"}
  /\ IF outcome.status = "rejected" \/ ThrowsAfterWalk(cli.running)
     THEN written = "ok" /\ Finish("failed")
     ELSE Finish(IF written = "ok" THEN "written" ELSE "failed")

\* the generator calls its walker: generateTree for the markdown tree,
\* getAllFiles for the others
GeneratorWalk(read) ==
  /\ InSlot /\ cli.running # "none"
  /\ ~ThrowsBeforeWalk(cli.running)
  /\ IF cli.running = "markdownTree" THEN GenerateTreeCall(read)
     ELSE GetAllFilesCall(read)

\* all six ifs are behind: Documentation complete
MapDone ==
  /\ cli.command = "map" /\ cli.pc = "generators" /\ cli.slot > Len(GeneratorOrder)
  /\ cli' = [cli EXCEPT !.pc = "done"]
  /\ UNCHANGED <<tree, config, previous, gen, loaded, mode, stack, outcome, fsLog, probe>>

NextCli ==
  \/ MapLoadConfig
  \/ \E made \in {"ok", "EACCES"} : MapEnsureDirectory(made)
  \/ MapSelect
  \/ MapSkipGenerator
  \/ GeneratorBegin
  \/ GeneratorThrowEarly
  \/ \E read \in ReadResults : GeneratorWalk(read)
  \/ GetAllFilesSkip
  \/ GetAllFilesThrow
  \/ \E read \in ReadResults : GetAllFilesStat(read)
  \/ GetAllFilesReturn
  \/ GenerateTreeSkip
  \/ GenerateTreeThrow
  \/ GenerateTreeFile
  \/ GenerateTreeReturn
  \/ \E written \in {"ok", "EACCES"} : GeneratorEnd(written)
  \/ MapDone

SpecCli == InitCli /\ [][NextCli]_vars

----------------------------------------------------------------------------
(* shouldIgnore on its own: one call with arguments drawn from small sets *)

S_aa == <<"a", "a">>
S_abl == <<"a", "b", "l">>
S_a_plus == <<"a", "+">>

P_a_l == <<"a", ".", "l">>
P_a_star == <<"a", "*">>

ProbeNames == {S_a, S_aa, S_al, S_abl, S_a_plus}

ProbePatterns == {S_a, P_a_l, P_star_l, P_a_star, P_a_slash_star, S_a_plus, P_open}

ProbePolicies ==
  { Ignore(ds, fs, ps) :
      ds \in {{}, {S_a}}, fs \in {{}, {S_al}},
      ps \in {<<>>} \cup {<<p>> : p \in ProbePatterns} }

InitShouldIgnore ==
  /\ tree = <<>>
  /\ config = ExampleConfig
  /\ mode = "idle"
  /\ stack = <<>>
  /\ outcome = NoOutcome
  /\ fsLog = <<>>
  /\ previous = NoPrevious
  /\ gen = NoGen
  /\ cli = NoCli
  /\ loaded = NoLoaded
  /\ \E name \in ProbeNames, isDirectory \in BOOLEAN,
        parent \in {<<>>, S_a}, ignore \in ProbePolicies :
       probe = [name |-> name, isDirectory |-> isDirectory,
                relativePath |-> PathJoin(parent, name),
                ignore |-> ignore, result |-> "none"]

\* shouldIgnore(name, isDirectory, relativePath, config) is called and answers
ShouldIgnoreCall ==
  /\ probe.result = "none"
  /\ probe' = [probe EXCEPT !.result =
                 ShouldIgnore(probe.name, probe.isDirectory, probe.relativePath,
                              [ignore |-> probe.ignore])]
  /\ UNCHANGED <<tree, config, previous, gen, cli, loaded, mode, stack, outcome, fsLog>>

NextShouldIgnore == ShouldIgnoreCall

SpecShouldIgnore == InitShouldIgnore /\ [][NextShouldIgnore]_vars

----------------------------------------------------------------------------
(* What the claims speak about, read off the tree and the config alone *)

RECURSIVE NodeRelativePath(_)
\* the path of node e relative to the root
NodeRelativePath(e) ==
  IF e = 0 THEN <<>>
  ELSE PathJoin(NodeRelativePath(tree[e].parent), tree[e].name)

RECURSIVE NodeLevel(_)
\* the root is at level 0, its children at level 1
NodeLevel(e) == IF e = 0 THEN 0 ELSE 1 + NodeLevel(tree[e].parent)

RECURSIVE Within(_, _)
\* e is d or lies beneath d
Within(e, d) == e = d \/ (e # 0 /\ Within(tree[e].parent, d))

Nodes == DOMAIN tree

Files == {e \in Nodes : ~tree[e].isDirectory}

Directories == {e \in Nodes : tree[e].isDirectory}

\* shouldIgnore answers true for node e
IgnoredNode(e) ==
  ShouldIgnore(tree[e].name, tree[e].isDirectory, NodeRelativePath(e), config) = "true"

RECURSIVE GlobMatches(_, _)
\* glob matching as the specification words it: * stands for any substring,
\* every other character for itself
GlobMatches(p, s) ==
  IF p = <<>> THEN s = <<>>
  ELSE IF Head(p) = "*"
       THEN \E k \in 0..Len(s) : GlobMatches(Tail(p), SubSeq(s, k + 1, Len(s)))
       ELSE s # <<>> /\ Head(s) = Head(p) /\ GlobMatches(Tail(p), Tail(s))

\* the ignore policy as the specification words it
IgnoredByPolicy(name, isDirectory, relativePath, ignore) ==
  \/ isDirectory /\ name \in ignore.directories
  \/ ~isDirectory /\ name \in ignore.files
  \/ \E k \in DOMAIN ignore.patterns :
       \/ GlobMatches(ignore.patterns[k], name)
       \/ GlobMatches(ignore.patterns[k], relativePath)

\* some node on the way from the root to e, e included, is ignored
RECURSIVE IgnoredOnPath(_)
IgnoredOnPath(e) ==
  e # 0 /\ (IgnoredNode(e) \/ IgnoredOnPath(tree[e].parent))

Resolved(fn) == mode = fn /\ outcome.status = "resolved"

Rejected(fn) == mode = fn /\ outcome.status = "rejected"

\* every record (or line) held by an invocation or handed to the caller
Collected ==
  {outcome.value[k] : k \in DOMAIN outcome.value}
    \cup UNION { {stack[f].results[k] : k \in DOMAIN stack[f].results} : f \in DOMAIN stack }

RelativePathsOf(records) == [k \in DOMAIN records |-> records[k].relativePath]


\* the reads of the log that asked for the children of a directory
Listed == {fsLog[k].node : k \in {j \in DOMAIN fsLog : fsLog[j].op = "readdir"}}

----------------------------------------------------------------------------
(* The claims *)

\* C1: every record of getAllFiles is free of ignored segments: shouldIgnore
\* answers true for no directory segment of its relativePath (asked as a
\* directory, with that directory's own relative path) nor for its final
\* segment (asked as a file); in particular no record's file name is in
\* ignore.files, at any depth.
C1_NoIgnoredSegment ==
  mode = "files" =>
    \A r \in Collected :
      LET segs == Segments(r.relativePath) IN
        /\ segs # <<>>
        /\ \A k \in 1..(Len(segs) - 1) :
             ShouldIgnore(segs[k], TRUE, JoinAll(SubSeq(segs, 1, k)), config) # "true"
        /\ ShouldIgnore(segs[Len(segs)], FALSE, r.relativePath, config) # "true"
        /\ segs[Len(segs)] \notin config.ignore.files

\* a finished walk that listed a directory below the root holding a file
\* whose name is in ignore.files, and returned other files
C1_Witness ==
  /\ Resolved("files")
  /\ outcome.value # <<>>
  /\ \E e \in Files :
       /\ tree[e].parent # 0
       /\ tree[e].parent \in Listed
       /\ tree[e].name \in config.ignore.files

\* C2 as stated: no segment of a record's relativePath, the final file name
\* included, equals a name of ignore.directories, and every relativePath is the
\* path of a descendant of the root.
C2_Original ==
  mode = "files" =>
    \A r \in Collected :
      /\ \A k \in DOMAIN Segments(r.relativePath) :
           Segments(r.relativePath)[k] \notin config.ignore.directories
      /\ \E e \in Files : NodeRelativePath(e) = r.relativePath

\* C2 as amended: no directory segment of a record's relativePath (every
\* segment but the final file name) equals a name of ignore.directories, and
\* every relativePath is the path of a file beneath the root, of which the
\* record's path is the absolute form.
C2_NoIgnoredDirectorySegment ==
  mode = "files" =>
    \A r \in Collected :
      /\ \A k \in 1..(Len(Segments(r.relativePath)) - 1) :
           Segments(r.relativePath)[k] \notin config.ignore.directories
      /\ \E e \in Files :
           /\ NodeRelativePath(e) = r.relativePath
           /\ r.path = RootDir \o <<Sep>> \o NodeRelativePath(e)

\* a returned record in a subdirectory whose file name is a name of
\* ignore.directories
C2_Witness ==
  /\ Resolved("files")
  /\ \E k \in DOMAIN outcome.value :
       LET segs == Segments(outcome.value[k].relativePath) IN
         /\ Len(segs) > 1
         /\ segs[Len(segs)] \in config.ignore.directories

\* the files getAllFiles owes: at most maxDepth directories above them and
\* no ignored segment on their path
ExpectedFiles ==
  {e \in Files : NodeLevel(e) - 1 <= config.maxDepth /\ ~IgnoredOnPath(e)}

ExampleAnswer ==
  { S_src \o <<"/">> \o S_index_js, S_src \o <<"/">> \o S_util_js, S_env_example }

\* C3: when no read fails, the relativePaths getAllFiles returns are exactly
\* those of the files at most maxDepth directory levels below the root with
\* no ignored segment on their path, one record per file; for the example
\* tree with node_modules ignored and maxDepth 8 they are src/index.js,
\* src/util.js and .env.example.
C3_Complete ==
  Resolved("files") =>
    /\ Range(RelativePathsOf(outcome.value))
         = {NodeRelativePath(e) : e \in ExpectedFiles}
    /\ Len(outcome.value) = Cardinality(ExpectedFiles)
    /\ (tree = ExampleTree /\ config = ExampleConfig) =>
         Range(RelativePathsOf(outcome.value)) = ExampleAnswer

\* the walk of the example tree has returned its three records
C3_Witness ==
  /\ Resolved("files")
  /\ tree = ExampleTree
  /\ config = ExampleConfig
  /\ Len(outcome.value) = 3

\* a before b in directories-first-then-lexicographic order
SortsBefore(a, b) ==
  \/ tree[a].isDirectory /\ ~tree[b].isDirectory
  \/ /\ tree[a].isDirectory = tree[b].isDirectory
     /\ LocaleCompare(tree[a].name, tree[b].name) < 0

\* the children of d, directories first and by name within each group
ChildrenSorted(d) ==
  LET kids == {e \in Nodes : tree[e].parent = d} IN
    CHOOSE seq \in [1..Cardinality(kids) -> kids] :
      \A i, j \in DOMAIN seq : i < j => SortsBefore(seq[i], seq[j])

RECURSIVE DepthFirst(_, _, _, _)
\* the files owed from the entries of a level from position k on, depth first,
\* each level taken in the order given by sorted
DepthFirst(entries, k, level, sorted) ==
  IF k > Len(entries) THEN <<>>
  ELSE LET e == entries[k] IN
    (IF IgnoredNode(e) THEN <<>>
     ELSE IF ~tree[e].isDirectory THEN <<e>>
     ELSE IF level + 1 > config.maxDepth THEN <<>>
     ELSE DepthFirst(IF sorted THEN ChildrenSorted(e) ELSE Readdir(tree, e),
                     1, level + 1, sorted))
      \o DepthFirst(entries, k + 1, level, sorted)

SortedWalk == DepthFirst(ChildrenSorted(0), 1, 0, TRUE)

ListingWalk == DepthFirst(Readdir(tree, 0), 1, 0, FALSE)

AtCutoff ==
  /\ mode = "files" /\ InLoop
  /\ tree[Entry].isDirectory
  /\ ShouldIgnore(tree[Entry].name, TRUE, NodeRelativePath(Entry), config) = "false"
  /\ NodeLevel(Entry) > config.maxDepth

DepthRespected ==
  /\ \A d \in Listed : NodeLevel(d) <= config.maxDepth
  /\ mode = "files" =>
       \A r \in Collected : Len(Segments(r.relativePath)) - 1 <= config.maxDepth
  /\ config.maxDepth = 0 =>
       /\ Listed \subseteq {0}
       /\ mode = "files" =>
            \A r \in Collected : \E e \in Files :
              /\ tree[e].parent = 0
              /\ r.relativePath = tree[e].name

\* C5: neither walker lists the children of a directory deeper than maxDepth
\* (the root is at depth 0); every record has at most maxDepth directory
\* segments before its file name; with maxDepth = 0 only the root is listed
\* and only files directly in it are returned; and the step that cuts a
\* subtree off leaves the records collected so far as they are.
C5_DepthBound ==
  /\ []DepthRespected
  /\ [][AtCutoff =>
          /\ stack' = [stack EXCEPT ![Len(stack)].i = @ + 1]
          /\ fsLog' = fsLog
          /\ outcome' = outcome]_vars

\* a finished walk that returned records and left unlisted a directory with
\* children, not ignored, one level too deep
C5_Witness ==
  /\ Resolved("files")
  /\ outcome.value # <<>>
  /\ \E d \in Directories :
       /\ NodeLevel(d) = config.maxDepth + 1
       /\ ~IgnoredOnPath(d)
       /\ tree[d].parent \in Listed
       /\ d \notin Listed
       /\ \E e \in Files : tree[e].parent = d

\* C6: a directory that the policy ignores, by its literal name or by a
\* pattern matching its bare name or its relative path, is never listed by
\* either walker, and no record and no tree line exists for it or for
\* anything beneath it.
C6_IgnoredDirectoryNotEntered ==
  \A d \in Directories :
    IgnoredByPolicy(tree[d].name, TRUE, NodeRelativePath(d), config.ignore) =>
      \A e \in Nodes :
        Within(e, d) =>
          /\ e \notin Listed
          /\ \A r \in Collected : r.relativePath # NodeRelativePath(e)

\* a finished rendering with lines, of a tree holding a directory with
\* children that only a pattern ignores
C6_Witness ==
  /\ Resolved("tree")
  /\ outcome.value # <<>>
  /\ config.ignore.directories = {}
  /\ \E d \in Directories :
       /\ IgnoredByPolicy(tree[d].name, TRUE, NodeRelativePath(d), config.ignore)
       /\ tree[d].parent \in Listed
       /\ \E e \in Nodes : tree[e].parent = d

\* C7: shouldIgnore answers true exactly when the name is in the literal set
\* of its own kind, or some pattern, read as a glob in which * matches any
\* substring and every other character only itself, matches the whole name
\* or the whole relative path.
C7_GlobSemantics ==
  probe.result # "none" =>
    (probe.result = "true"
       <=> IgnoredByPolicy(probe.name, probe.isDirectory, probe.relativePath,
                           probe.ignore))

FailedReads(op) == {k \in DOMAIN fsLog : fsLog[k].op = op /\ fsLog[k].result # "ok"}

\* C8: when the stat of one file fails, getAllFiles does not abort, and every
\* other file it owes is still returned.
C8_StatFailureTolerated ==
  mode = "files" =>
    \A k \in FailedReads("stat") :
      /\ outcome.status # "rejected"
      /\ outcome.status = "resolved" =>
           {NodeRelativePath(e) : e \in ExpectedFiles \ {fsLog[k].node}}
             \subseteq Range(RelativePathsOf(outcome.value))

\* C9: when listing a directory below the root fails, only that subtree is
\* given up: the walk does not abort, and what lies outside the subtree is
\* still delivered to the caller.
C9_ReaddirFailureTolerated ==
  \A k \in FailedReads("readdir") :
    fsLog[k].node # 0 =>
      /\ outcome.status # "rejected"
      /\ Resolved("files") =>
           {NodeRelativePath(e) : e \in {f \in ExpectedFiles : ~Within(f, fsLog[k].node)}}
             \subseteq Range(RelativePathsOf(outcome.value))

\* C10: when the listing of the root fails, getAllFiles is rejected at once,
\* with no record, no further read, and the error of the failed read, which
\* tells a missing root (ENOENT) from an unreadable one (EACCES).
C10_RootFailure ==
  (mode = "files" /\ fsLog # <<>> /\ fsLog[1].result # "ok") =>
    /\ fsLog = <<[op |-> "readdir", node |-> 0, result |-> fsLog[1].result]>>
    /\ stack = <<>>
    /\ outcome = [status |-> "rejected", value |-> <<>>, error |-> fsLog[1].result]
    /\ outcome.error \in {"ENOENT", "EACCES"}

\* the walk of a tree with a file it owes was rejected because the root
\* could not be read
C10_Witness ==
  /\ Rejected("files")
  /\ outcome.error = "EACCES"
  /\ Len(fsLog) = 1
  /\ ExpectedFiles # {}

\* the ignore patterns that are valid expressions after glob translation
WellFormedPatterns(patterns) ==
  SelectSeq(patterns, LAMBDA p : ~RegexSyntaxError(GlobRegexSource(p)))

RECURSIVE IgnoredOnPathUnder(_, _)
\* some node on the way from the root to e, e included, is ignored under cfg
IgnoredOnPathUnder(e, cfg) ==
  e # 0 /\ \/ ShouldIgnore(tree[e].name, tree[e].isDirectory,
                           NodeRelativePath(e), cfg) = "true"
           \/ IgnoredOnPathUnder(tree[e].parent, cfg)

\* C11: an ignore pattern that is no valid expression after glob translation
\* is skipped: it never makes the walk fail, and a finished walk returns the
\* files that the remaining patterns and the literal sets leave.
C11_MalformedPatternSkipped ==
  LET skipped == [config EXCEPT !.ignore.patterns = WellFormedPatterns(@)] IN
    /\ outcome.error # "SyntaxError"
    /\ Resolved("files") =>
         Range(RelativePathsOf(outcome.value))
           = {NodeRelativePath(e) :
                e \in {f \in Files : /\ NodeLevel(f) - 1 <= config.maxDepth
                                     /\ ~IgnoredOnPathUnder(f, skipped)}}

\* the relative path of the directory that holds the entry at relativePath
ParentPath(relativePath) ==
  LET segs == Segments(relativePath) IN JoinAll(SubSeq(segs, 1, Len(segs) - 1))

\* line k of the rendering is the last line of its directory level
LastOfLevel(lines, k) ==
  \A j \in DOMAIN lines :
    j > k => ParentPath(lines[j].relativePath) # ParentPath(lines[k].relativePath)

\* C12: in the finished rendering the last rendered entry of every directory
\* level carries the last-sibling connector and every other rendered entry of
\* the level the middle connector, also when entries sorting after the last
\* rendered one are ignored.
C12_LastSiblingConnector ==
  Resolved("tree") =>
    \A k \in DOMAIN outcome.value :
      outcome.value[k].connector
        = IF LastOfLevel(outcome.value, k) THEN LastConnector ELSE MidConnector

RECURSIVE SortedLines(_, _, _)
\* the entries owed a line from position k of a level on: each entry that is
\* not ignored, a directory followed at once by the lines of its subtree,
\* every level directories first and by name within each group
SortedLines(entries, k, level) ==
  IF k > Len(entries) THEN <<>>
  ELSE LET e == entries[k] IN
    (IF IgnoredNode(e) THEN <<>>
     ELSE IF ~tree[e].isDirectory \/ level + 1 > config.maxDepth THEN <<e>>
     ELSE <<e>> \o SortedLines(ChildrenSorted(e), 1, level + 1))
      \o SortedLines(entries, k + 1, level)

\* C13: the lines of a finished rendering come level by level with the
\* directories before the files and by name within each group, each
\* directory's line followed at once by the lines of its subtree; the order
\* is a function of the set of children alone, not of the order in which the
\* listing delivers them.
C13_SortedRendering ==
  Resolved("tree") =>
    RelativePathsOf(outcome.value)
      = [k \in DOMAIN SortedLines(ChildrenSorted(0), 1, 0)
           |-> NodeRelativePath(SortedLines(ChildrenSorted(0), 1, 0)[k])]

\* a rendering of three lines, a directory's child between the directory and
\* a file of the root, of a root whose listing delivers the file first
C13_Witness ==
  /\ Resolved("tree")
  /\ Len(outcome.value) = 3
  /\ Readdir(tree, 0) # ChildrenSorted(0)
  /\ \E d \in Directories, e \in Files :
       /\ tree[d].parent = 0 /\ tree[e].parent = d
       /\ outcome.value[2].relativePath = NodeRelativePath(e)

\* the line of the rendering drawn for the entry at relativePath
LineOf(lines, relativePath) ==
  lines[CHOOSE k \in DOMAIN lines : lines[k].relativePath = relativePath]

\* C14: the line of an entry at nesting depth d is d continuation units, a
\* connector and the entry's name; the k-th unit is the blank unit when the
\* ancestor at depth k was drawn with the last-sibling connector and the bar
\* unit when it was drawn with the middle connector.
C14_PrefixEncodesAncestors ==
  mode = "tree" =>
    \A line \in Collected :
      LET segs == Segments(line.relativePath) IN
        /\ Len(line.prefix) = Len(segs) - 1
        /\ line.name = segs[Len(segs)]
        /\ line.connector \in {LastConnector, MidConnector}
        /\ \A k \in DOMAIN line.prefix :
             \E anc \in Collected :
               /\ anc.relativePath = JoinAll(SubSeq(segs, 1, k))
               /\ line.prefix[k] = IF anc.connector = LastConnector
                                   THEN LastIndent ELSE MidIndent

\* a finished rendering with a child under the bar of a directory drawn with
\* the middle connector
C14_Witness ==
  /\ Resolved("tree")
  /\ \E k \in DOMAIN outcome.value :
       /\ outcome.value[k].prefix = <<MidIndent>>
       /\ LineOf(outcome.value, ParentPath(outcome.value[k].relativePath)).connector
            = MidConnector

\* the sequences of records held by the invocations and handed to the caller
RecordLists == {outcome.value} \cup {stack[f].results : f \in DOMAIN stack}

\* C17: no two records of one getAllFiles invocation share a relativePath.
C17_NoDuplicateRelativePath ==
  mode = "files" =>
    \A records \in RecordLists :
      \A i, j \in DOMAIN records :
        records[i].relativePath = records[j].relativePath => i = j

\* a finished walk that returned two files of the same name, one of them in
\* a directory
C17_Witness ==
  /\ Resolved("files")
  /\ \E i, j \in DOMAIN outcome.value :
       /\ i # j
       /\ LET a == Segments(outcome.value[i].relativePath)
              b == Segments(outcome.value[j].relativePath)
          IN a[Len(a)] = b[Len(b)]

\* C18: every record denotes a file: what is found at a record's path is never
\* a directory.
C18_RecordsAreFiles ==
  mode = "files" => \A r \in Collected : ~r.stats.isDirectory

\* the node of the tree at relativePath
NodeAt(relativePath) == CHOOSE e \in Nodes : NodeRelativePath(e) = relativePath

\* the entries of a description table whose key is a regular expression
ValidKeys(table) == SelectSeq(table, LAMBDA en : ~RegexSyntaxError(en.key))

\* the value of the first valid key, in table order, that matches the path;
\* <<>> when there is none
FirstValidMatch(table, relativePath) ==
  LET valid == ValidKeys(table)
      hits == {k \in DOMAIN valid : RegexTest(valid[k].key, relativePath)}
  IN IF hits = {} THEN <<>>
     ELSE valid[CHOOSE k \in hits : \A h \in hits : k <= h].value

\* some key of filePatternDescriptions is no regular expression
MalformedDescriptionKey ==
  \E k \in DOMAIN config.filePatternDescriptions :
    RegexSyntaxError(config.filePatternDescriptions[k].key)

\* C19: a key of filePatternDescriptions that is no regular expression never
\* makes generateTree fail and takes no line from the rendering; it is skipped
\* with a warning wherever the loop comes to it, and the valid keys after it
\* are still tried for the same file.
C19_MalformedKeySkipped ==
  (mode = "tree" /\ MalformedDescriptionKey /\ config.includeDescriptions) =>
    /\ outcome.error = "SyntaxError" =>
         \E k \in DOMAIN config.ignore.patterns :
           RegexSyntaxError(GlobRegexSource(config.ignore.patterns[k]))
    /\ \A line \in Collected :
         ~tree[NodeAt(line.relativePath)].isDirectory =>
           /\ line.description
                = FirstValidMatch(config.filePatternDescriptions, line.relativePath)
           /\ \A k \in DOMAIN config.filePatternDescriptions :
                LET key == config.filePatternDescriptions[k].key IN
                  (/\ RegexSyntaxError(key)
                   /\ \A h \in 1..(k - 1) :
                        LET before == config.filePatternDescriptions[h].key IN
                          RegexSyntaxError(before)
                            \/ ~RegexTest(before, line.relativePath))
                    => key \in Range(line.warned)
    /\ Resolved("tree") =>
         RelativePathsOf(outcome.value)
           = [k \in DOMAIN SortedLines(ChildrenSorted(0), 1, 0)
                |-> NodeRelativePath(SortedLines(ChildrenSorted(0), 1, 0)[k])]

\* a finished rendering under a table whose first key is malformed, with a
\* file annotated by the second key and another by the third
C19_Witness ==
  /\ Resolved("tree")
  /\ config.includeDescriptions
  /\ Len(config.filePatternDescriptions) = 3
  /\ RegexSyntaxError(config.filePatternDescriptions[1].key)
  /\ \E i, j \in DOMAIN outcome.value :
       /\ outcome.value[i].description = config.filePatternDescriptions[2].value
       /\ outcome.value[j].description = config.filePatternDescriptions[3].value
       /\ outcome.value[i].warned = <<config.filePatternDescriptions[1].key>>

\* the value of the table entry whose key is the path itself; <<>> when the
\* table has no such key
OwnEntry(table, relativePath) ==
  IF \E k \in DOMAIN table : table[k].key = relativePath
  THEN table[CHOOSE k \in DOMAIN table : table[k].key = relativePath].value
  ELSE <<>>

\* C20: the annotation of a line is, for a directory, the value of the
\* directoryDescriptions key that equals its relative path; for a file, the
\* value of the first filePatternDescriptions key, in table order, whose
\* regular expression matches its relative path; and none when nothing
\* matches or includeDescriptions is off.
C20_DescriptionChoice ==
  mode = "tree" =>
    \A line \in Collected :
      line.description
        = IF ~config.includeDescriptions THEN <<>>
          ELSE IF tree[NodeAt(line.relativePath)].isDirectory
               THEN OwnEntry(config.directoryDescriptions, line.relativePath)
          ELSE FirstValidMatch(config.filePatternDescriptions, line.relativePath)

\* both generators have their results, the earlier one from walker fn
Both(fn, later) ==
  /\ previous.mode = fn
  /\ previous.outcome.status = "resolved"
  /\ Resolved(later)

\* the relative paths of the lines drawn for files
FileLines(lines) ==
  {lines[k].relativePath :
     k \in {j \in DOMAIN lines : ~tree[NodeAt(lines[j].relativePath)].isDirectory}}

\* C15: when a rendering and a flat list of the same root under the same
\* config have both finished, the files that have a line in the rendering are
\* the files that have a record in the list.
C15_SameFiltering ==
  /\ Both("files", "tree") =>
       FileLines(outcome.value) = Range(RelativePathsOf(previous.outcome.value))
  /\ Both("tree", "files") =>
       FileLines(previous.outcome.value) = Range(RelativePathsOf(outcome.value))

\* a rendering and after it a flat list, not empty, of a root that holds an
\* ignored entry
C15_Witness ==
  /\ Both("tree", "files")
  /\ outcome.value # <<>>
  /\ \E e \in Nodes : tree[e].parent = 0 /\ IgnoredNode(e)

C21_OneReadAtATime ==
  /\ \A f \in 1..(Len(stack) - 1) :
       /\ stack[f].i <= Len(stack[f].entries)
       /\ stack[f + 1].dir = stack[f].entries[stack[f].i]
  /\ \A k, m \in DOMAIN fsLog :
       (fsLog[k].op = fsLog[m].op /\ fsLog[k].node = fsLog[m].node) => k = m
  /\ \A k \in DOMAIN fsLog :
       fsLog[k].result # "ok" => (k = Len(fsLog) /\ outcome.status = "rejected")
  /\ \A d \in Directories :
       \A k, l, m \in DOMAIN fsLog :
         (k < l /\ l < m /\ Within(fsLog[k].node, d) /\ Within(fsLog[m].node, d))
           => Within(fsLog[l].node, d)

\* a finished walk that listed a directory below the root, stat'ed a file in
\* it and then a file of the root
C21_Witness ==
  /\ Resolved("files")
  /\ Len(fsLog) >= 4
  /\ \E k \in DOMAIN fsLog :
       /\ k < Len(fsLog)
       /\ fsLog[k].op = "stat"
       /\ tree[fsLog[k].node].parent # 0
       /\ fsLog[Len(fsLog)].op = "stat"
       /\ tree[fsLog[Len(fsLog)].node].parent = 0

\* the place of a generator in the order of the map command
Turn(g) == CHOOSE k \in DOMAIN GeneratorOrder : GeneratorOrder[k] = g

\* the generator of an output type named by --only or by config.output
GeneratorOf(type) == IF type = "markdown" THEN "markdownTree" ELSE type

\* the generators of the selected outputs
SelectedGenerators ==
  {GeneratorOf(type) : type \in cli.outputTypes} \cap Range(GeneratorOrder)

\* the generators that have finished, with a file or with a reported error
FinishedGenerators ==
  {cli.log[k].generator :
     k \in {j \in DOMAIN cli.log : cli.log[j].event \in {"written", "failed"}}}

\* C22: the map command runs the selected generators one after another in
\* the order markdown tree, config files, env vars, dependency graph,
\* architecture, metadata; a generator has written its file or had its error
\* reported before the next one starts; every generator does its own walk,
\* starting from nothing; and a failed generator keeps no later one from
\* running.
C22_OneAfterAnother ==
  (cli.command = "map" /\ cli.pc \in {"generators", "done"}) =>
    /\ \A k \in DOMAIN cli.log :
         IF k % 2 = 1
         THEN /\ cli.log[k].event = "started"
              /\ k > 2 => Turn(cli.log[k - 2].generator) < Turn(cli.log[k].generator)
         ELSE /\ cli.log[k].event \in {"written", "failed"}
              /\ cli.log[k].generator = cli.log[k - 1].generator
    /\ cli.running = "none" <=> Len(cli.log) % 2 = 0
    /\ cli.running # "none" => cli.log[Len(cli.log)].generator = cli.running
    /\ cli.running = "none" =>
         (mode = "idle" /\ stack = <<>> /\ fsLog = <<>> /\ outcome = NoOutcome)
    /\ mode # "idle" => mode = IF cli.running = "markdownTree" THEN "tree" ELSE "files"
    /\ \A g \in SelectedGenerators :
         Turn(g) < cli.slot => g \in FinishedGenerators
    /\ FinishedGenerators \subseteq SelectedGenerators

\* the command is through: a generator failed, and a later one wrote its file
C22_Witness ==
  /\ cli.command = "map" /\ cli.pc = "done"
  /\ \E k, m \in DOMAIN cli.log :
       /\ k < m
       /\ cli.log[k].event = "failed"
       /\ cli.log[m].event = "written"

----------------------------------------------------------------------------
(* The walk under a scheduler that runs every continuation that is ready:  *)
(* the filesystem answers each read, with a result or an error, and the    *)
(* event loop resumes the invocation that awaits it                        *)

(* The configurations of the fair walk carry no pattern or one malformed    *)
(* pattern: which entries a pattern hides does not bear on whether the     *)
(* walk ends, and a malformed one makes the walk end by raising an error   *)
FairConfigs ==
  {c \in GeneratedConfigs : c.ignore.patterns \in {<<>>, <<P_open>>}}

InitFair ==
  /\ tree \in GeneratedTrees \cup {ExampleTree}
  /\ config \in FairConfigs \cup {ExampleConfig}
  /\ mode = "idle"
  /\ stack = <<>>
  /\ outcome = NoOutcome
  /\ fsLog = <<>>
  /\ previous = NoPrevious
  /\ gen = NoGen
  /\ cli = NoCli
  /\ loaded = NoLoaded
  /\ probe = NoProbe

SpecFair == InitFair /\ [][Next]_vars /\ WF_vars(Next)

Finished == outcome.status \in {"resolved", "rejected"}

\* C23: a walk that has been started finishes, with its result or with an
\* error, and it lists no directory twice on the way.
C23_Terminates ==
  /\ (mode # "idle") ~> Finished
  /\ [](\A k, m \in DOMAIN fsLog :
          (/\ fsLog[k].op = "readdir" /\ fsLog[m].op = "readdir"
           /\ fsLog[k].node = fsLog[m].node) => k = m)

\* a rendering that has finished after listing the root and two directories
C23_Witness ==
  /\ Resolved("tree")
  /\ Cardinality(Listed) = 3

----------------------------------------------------------------------------
(* The generators that read package.json files: analyzeDependencies        *)
(* (lib/config-manager.js), generateArchitecture                           *)
(* (lib/architecture-generator.js) and generateMetadata                    *)
(* (lib/metadata-generator.js)                                             *)

PackageGenerators ==
  {"analyzeDependencies", "generateArchitecture", "generateMetadata"}

\* what fs.readFile and JSON.parse make of a package.json: the read fails,
\* the text is not JSON, the text is the JSON value null, it is an object
\* with a name, or it is a value without a name
PackageContents == {"EACCES", "malformed", "null", "named", "unnamed"}

PackageNames == {S_a, S_package_json}

PackageDirents(n) ==
  { [parent |-> p, name |-> nm, isDirectory |-> b,
     target |-> IF b THEN "directory" ELSE "file"] :
      p \in 0..(n - 1), nm \in PackageNames, b \in BOOLEAN }

PackageTrees ==
  UNION { {t \in [1..n -> PackageDirents(n)] : WellFormedTree(t)} :
            n \in 0..MaxNodes }

PackageConfigs ==
  {DefaultConfig, [DefaultConfig EXCEPT !.ignore.directories = {S_a}]}

InitPackages ==
  /\ tree \in PackageTrees
  /\ config \in PackageConfigs
  /\ mode = "idle"
  /\ stack = <<>>
  /\ outcome = NoOutcome
  /\ fsLog = <<>>
  /\ previous = NoPrevious
  /\ gen = NoGen
  /\ cli = NoCli
  /\ loaded = NoLoaded
  /\ probe = NoProbe

\* path.basename(relativePath)
Basename(relativePath) ==
  LET segs == Segments(relativePath) IN segs[Len(segs)]

\* path.dirname(relativePath)
Dirname(relativePath) ==
  IF Len(Segments(relativePath)) = 1 THEN <<".">> ELSE ParentPath(relativePath)

IsPackageFile(file) == Basename(file.relativePath) = S_package_json

\* the generator is called and awaits getAllFiles(rootDir, config)
PackagesCall(fn, read) ==
  /\ gen = NoGen /\ mode = "idle"
  /\ gen' = [fn |-> fn, phase |-> "walk", packageFiles |-> <<>>, k |-> 1,
             contents |-> <<>>, packages |-> <<>>, errors |-> <<>>,
             document |-> [kind |-> "none"]]
  /\ mode' = "files"
  /\ Enter("files", <<>>, 0, RootDir, 0, <<>>, <<>>, read)
  /\ UNCHANGED <<tree, config, previous, cli, loaded, probe>>

\* getAllFiles rejects: the generator has no try around it and rejects too
PackagesWalkFailed ==
  /\ gen # NoGen /\ gen.phase = "walk"
  /\ outcome.status = "rejected"
  /\ gen' = [gen EXCEPT !.phase = "rejected"]
  /\ UNCHANGED <<tree, config, mode, stack, outcome, fsLog, previous, cli,
                 loaded, probe>>

\* allFiles.filter(basename === "package.json"); analyzeDependencies returns
\* at once when there is none
PackagesFilter ==
  /\ gen # NoGen /\ gen.phase = "walk"
  /\ outcome.status = "resolved"
  /\ LET packageFiles == SelectSeq(outcome.value, IsPackageFile)
     IN gen' = IF gen.fn = "analyzeDependencies" /\ packageFiles = <<>>
               THEN [gen EXCEPT !.phase = "returned", !.document = [kind |-> "no packages"]]
               ELSE [gen EXCEPT !.phase = "parse", !.packageFiles = packageFiles]
  /\ UNCHANGED <<tree, config, mode, stack, outcome, fsLog, previous, cli,
                 loaded, probe>>

\* what the try block pushes for a file whose content is an object or
\* another value that is not null
Package(file, content) ==
  [path |-> file.relativePath,
   name |-> IF content = "named" THEN <<"n">> ELSE Dirname(file.relativePath)]

\* readFile throws, JSON.parse throws, or pkg.name is read of null
ParseThrows(content) == content \in {"EACCES", "malformed", "null"}

\* mutant: the error of a package file is not caught
PackagesParse_Uncaught(content) ==
  /\ gen # NoGen /\ gen.phase = "parse" /\ gen.k <= Len(gen.packageFiles)
  /\ gen' = IF ParseThrows(content)
            THEN [gen EXCEPT !.phase = "rejected",
                             !.contents = Append(@, content)]
            ELSE [gen EXCEPT !.k = @ + 1,
                             !.contents = Append(@, content),
                             !.packages = Append(@, Package(gen.packageFiles[gen.k], content))]
  /\ UNCHANGED <<tree, config, mode, stack, outcome, fsLog, previous, cli,
                 loaded, probe>>

\* one turn of the loop over packageFiles: try { readFile; JSON.parse;
\* packages.push } catch { console.error }
PackagesParse(content) ==
  /\ gen # NoGen /\ gen.phase = "parse" /\ gen.k <= Len(gen.packageFiles)
  /\ gen' = IF ParseThrows(content)
            THEN [gen EXCEPT !.k = @ + 1,
                             !.contents = Append(@, content),
                             !.errors = Append(@, gen.packageFiles[gen.k].path)]
            ELSE [gen EXCEPT !.k = @ + 1,
                             !.contents = Append(@, content),
                             !.packages = Append(@, Package(gen.packageFiles[gen.k], content))]
  /\ UNCHANGED <<tree, config, mode, stack, outcome, fsLog, previous, cli,
                 loaded, probe>>

\* generateDependencyDiagram reads config.output.dependencyGraph.includeExternal
DiagramThrows(fn) ==
  /\ fn = "analyzeDependencies"
  /\ \/ "output" \notin DOMAIN config
     \/ "dependencyGraph" \notin DOMAIN config.output

\* the loop is over: the document is built from packages and returned
PackagesReturn ==
  /\ gen # NoGen /\ gen.phase = "parse" /\ gen.k > Len(gen.packageFiles)
  /\ gen' = IF DiagramThrows(gen.fn)
            THEN [gen EXCEPT !.phase = "rejected"]
            ELSE [gen EXCEPT !.phase = "returned",
                             !.document = [kind |-> "report",
                                           packages |-> gen.packages,
                                           total |-> Len(gen.packages)]]
  /\ UNCHANGED <<tree, config, mode, stack, outcome, fsLog, previous, cli,
                 loaded, probe>>

NextPackages ==
  \/ \E fn \in PackageGenerators, read \in ReadResults : PackagesCall(fn, read)
  \/ GetAllFilesSkip
  \/ \E read \in ReadResults : GetAllFilesRecurse(read)
  \/ \E read \in ReadResults : GetAllFilesStat(read)
  \/ GetAllFilesReturn
  \/ PackagesWalkFailed
  \/ PackagesFilter
  \/ \E content \in PackageContents : PackagesParse(content)
  \/ PackagesReturn

SpecPackages == InitPackages /\ [][NextPackages]_vars

\* the records of the package files whose turn of the loop is over and whose
\* content is in the set, in the order of the walk result
RECURSIVE PackageFilesWith(_, _)
PackageFilesWith(contents, k) ==
  IF k = 0 THEN <<>>
  ELSE PackageFilesWith(contents, k - 1) \o
         (IF gen.contents[k] \in contents THEN <<gen.packageFiles[k]>> ELSE <<>>)

----------------------------------------------------------------------------
(* The inputs of a walk *)

\* C25: no step of getAllFiles or generateTree, with the shouldIgnore calls
\* it makes, changes the config or the directory tree.
C25_InputsUnchanged == [][config' = config /\ tree' = tree]_vars

\* a collection that skipped an ignored entry and then returned a record
C25_Witness ==
  /\ Resolved("files")
  /\ Len(outcome.value) >= 1
  /\ \E e \in Nodes : tree[e].parent = 0 /\ IgnoredNode(e)

----------------------------------------------------------------------------
(* loadConfig (lib/config-manager.js): JSON values are objects, with their *)
(* own properties, or leaves, which carry their JSON text                   *)

Obj(f) == [t |-> "obj", f |-> f]
Val(v) == [t |-> "val", v |-> v]
Undefined == [t |-> "undefined"]

NoFields == [k \in {} |-> Undefined]

\* the own properties that a spread copies: those of an object, none of
\* undefined
Fields(v) == IF v.t = "obj" THEN v.f ELSE NoFields

\* { ...a, ...b }
Spread(f, g) ==
  [k \in DOMAIN f \cup DOMAIN g |-> IF k \in DOMAIN g THEN g[k] ELSE f[k]]

\* v?.k
Prop(v, k) == IF v.t = "obj" /\ k \in DOMAIN v.f THEN v.f[k] ELSE Undefined

RECURSIVE Get(_, _)
\* the value at a property path, Undefined where the path leaves the value
Get(v, path) ==
  IF path = <<>> THEN v ELSE Get(Prop(v, path[1]), SubSeq(path, 2, Len(path)))

RECURSIVE Paths(_)
\* the property paths defined in a value
Paths(v) ==
  {<<>>} \cup
    (IF v.t = "obj"
     THEN UNION { {<<k>> \o p : p \in Paths(v.f[k])} : k \in DOMAIN v.f }
     ELSE {})

LeafPaths(v) == {p \in Paths(v) : Get(v, p).t = "val"}

defaultConfig ==
  Obj([projectInfo |-> Obj([title |-> Val("Project Structure"),
                            version |-> Val("v1.0"),
                            description |-> Val("This document outlines")]),
       output |->
         Obj([markdownTree |-> Obj([enabled |-> Val("true"),
                                    filename |-> Val("PROJECT-STRUCTURE.md"),
                                    includePrinciples |-> Val("true"),
                                    includeChangelog |-> Val("true")]),
              configFiles |-> Obj([enabled |-> Val("true"),
                                   filename |-> Val("CONFIG-FILES.md"),
                                   includeFiles |->
                                     Obj([packageJson |-> Val("true"),
                                          dockerfile |-> Val("true")])]),
              dependencyGraph |-> Obj([enabled |-> Val("false"),
                                       filename |-> Val("DEPENDENCIES.md"),
                                       includeExternal |-> Val("true"),
                                       includeInternal |-> Val("true")]),
              envVarsDocs |-> Obj([enabled |-> Val("false"),
                                   filename |-> Val("ENV-VARIABLES.md"),
                                   patterns |-> Val("[.env.example]")]),
              architecture |-> Obj([enabled |-> Val("false"),
                                    filename |-> Val("ARCHITECTURE.md"),
                                    diagramType |-> Val("mermaid")]),
              metadataJson |-> Obj([enabled |-> Val("false"),
                                    filename |-> Val("project-metadata.json")])]),
       ignore |-> Obj([directories |-> Val("[node_modules]"),
                       files |-> Val("[.DS_Store, Thumbs.db, *.log]"),
                       patterns |-> Val("[]")]),
       maxDepth |-> Val("8"),
       includeDescriptions |-> Val("true"),
       directoryDescriptions |-> Obj(NoFields),
       filePatternDescriptions |-> Obj(NoFields),
       principles |-> Val("[]"),
       changelog |-> Val("[]")])

\* the return statement of loadConfig
Merged(userConfig) ==
  LET defaultOutput == Prop(defaultConfig, "output")
      output == Prop(userConfig, "output")
      configFiles == Prop(output, "configFiles")
  IN Obj(Spread(Spread(Fields(defaultConfig), Fields(userConfig)),
       [output |->
          Obj(Spread(Spread(Fields(defaultOutput), Fields(output)),
            [markdownTree |->
               Obj(Spread(Fields(Prop(defaultOutput, "markdownTree")),
                          Fields(Prop(output, "markdownTree")))),
             configFiles |->
               Obj(Spread(Spread(Fields(Prop(defaultOutput, "configFiles")),
                                 Fields(configFiles)),
                 [includeFiles |->
                    Obj(Spread(Fields(Prop(Prop(defaultOutput, "configFiles"),
                                           "includeFiles")),
                               Fields(Prop(configFiles, "includeFiles"))))]))])),
        ignore |->
          Obj(Spread(Fields(Prop(defaultConfig, "ignore")),
                     Fields(Prop(userConfig, "ignore"))))]))

\* what the user's file may say under each top-level key; Undefined where
\* the file does not have the key
UserProjectInfo == {Undefined, Obj([title |-> Val("Mine")])}

UserOutput ==
  { Undefined,
    Obj(NoFields),
    Obj([markdownTree |-> Obj([enabled |-> Val("false")])]),
    Obj([configFiles |-> Obj([includeFiles |-> Obj([dockerfile |-> Val("false")])])]),
    Obj([dependencyGraph |-> Obj([enabled |-> Val("true")])]),
    Obj([envVarsDocs |-> Obj([enabled |-> Val("true")]),
         metadataJson |-> Obj([enabled |-> Val("true"),
                               filename |-> Val("meta.json")])]) }

UserIgnore ==
  { Undefined,
    Obj([directories |-> Val("[dist]")]),
    Obj([files |-> Val("[]"), patterns |-> Val("[*.tmp]")]) }

UserMaxDepth == {Undefined, Val("3")}

\* a JSON object with the given values under the four keys
UserConfig(projectInfo, output, ignore, maxDepth) ==
  LET all == [projectInfo |-> projectInfo, output |-> output,
              ignore |-> ignore, maxDepth |-> maxDepth]
  IN Obj([k \in {key \in DOMAIN all : all[key] # Undefined} |-> all[k]])

UserConfigs ==
  { UserConfig(p, o, i, m) :
      p \in UserProjectInfo, o \in UserOutput, i \in UserIgnore, m \in UserMaxDepth }

\* what is at configPath: a file that cannot be read, text that is not JSON,
\* or the text of a JSON object
ConfigFileContents ==
  {[kind |-> "unreadable"], [kind |-> "malformed"]}
    \cup {[kind |-> "json", value |-> u] : u \in UserConfigs}

InitLoadConfig ==
  /\ tree = <<>>
  /\ config = NoConfig
  /\ mode = "idle"
  /\ stack = <<>>
  /\ outcome = NoOutcome
  /\ fsLog = <<>>
  /\ previous = NoPrevious
  /\ gen = NoGen
  /\ cli = NoCli
  /\ probe = NoProbe
  /\ \E file \in ConfigFileContents : loaded = [result |-> "none", file |-> file]

\* loadConfig(configPath): readFile and JSON.parse are not guarded
LoadConfigCall ==
  /\ loaded.result = "none" /\ "file" \in DOMAIN loaded
  /\ loaded' = IF loaded.file.kind = "json"
               THEN [result |-> "resolved", file |-> loaded.file,
                     config |-> Merged(loaded.file.value)]
               ELSE [result |-> "rejected", file |-> loaded.file,
                     error |-> IF loaded.file.kind = "unreadable"
                               THEN "ENOENT" ELSE "SyntaxError"]
  /\ UNCHANGED <<tree, config, mode, stack, outcome, fsLog, previous, gen,
                 cli, probe>>

NextLoadConfig == LoadConfigCall

SpecLoadConfig == InitLoadConfig /\ [][NextLoadConfig]_vars

\* C26: the config returned by loadConfig defines every property path of
\* defaultConfig, and has the user's value wherever the user's file has one.
C26_AllPropertiesExist ==
  loaded.result = "resolved" =>
    /\ \A p \in Paths(defaultConfig) : Get(loaded.config, p) # Undefined
    /\ \A p \in LeafPaths(loaded.file.value) :
         Get(loaded.config, p) = Get(loaded.file.value, p)

----------------------------------------------------------------------------
(* The map command with the example configuration of the README *)

\* the entry is matched by no literal name of the ignore section
NotIgnoredByName(e) ==
  tree[e].name \notin (IF tree[e].isDirectory THEN config.ignore.directories
                       ELSE config.ignore.files)

\* C27: with the README's example configuration, which has no
\* ignore.patterns and no maxDepth, the markdown-tree and config-files
\* generators raise no error on a tree that holds an entry that is not
\* ignored: their walk does not fail with a TypeError and nothing fails
\* after it.
C27_ReadmeConfigCompletes ==
  (/\ cli.command = "map" /\ cli.configFile = "readme"
   /\ cli.running \in {"markdownTree", "configFiles"}
   /\ \E e \in Nodes : NotIgnoredByName(e)) =>
    /\ outcome.error # "TypeError"
    /\ outcome.status = "resolved" => ~ThrowsAfterWalk(cli.running)

----------------------------------------------------------------------------
(* The default configuration and log files *)

\* the name ends in .log
EndsInLog(name) ==
  /\ Len(name) >= 4
  /\ SubSeq(name, Len(name) - 3, Len(name)) = <<".", "l", "o", "g">>

\* C28: under the default configuration no record of getAllFiles and no
\* line of generateTree is for a file whose name ends in .log.
C28_NoLogFiles ==
  (/\ cli.command = "map" /\ cli.configFile = "default"
   /\ cli.pc \in {"generators", "done"}) =>
    \A list \in RecordLists : \A k \in DOMAIN list :
      ~EndsInLog(Basename(list[k].relativePath))

----------------------------------------------------------------------------
(* The init command (bin/project-mapper.js) and createDefaultConfig        *)
(* (lib/config-manager.js)                                                  *)

\* JSON.stringify(value, null, 2), as the leaves of the text with the
\* property path of each, and the paths of the objects without properties
Stringify(v) ==
  {<<p, Get(v, p).v>> : p \in LeafPaths(v)}
    \cup {<<p, "{}">> : p \in {q \in Paths(v) : Get(v, q) = Obj(NoFields)}}

Absent == [kind |-> "absent"]
Text(t) == [kind |-> "text", text |-> t]
Partial == [kind |-> "partial"]

\* what is at .project-mapper.json before the command: nothing, the file
\* of an earlier init, or a file of the user
ExistingFiles ==
  {Absent, Text(Stringify(defaultConfig))}
    \cup {Text(Stringify(u)) : u \in UserConfigs}

\* writeFile succeeds, fails when it opens the file, or fails after it has
\* truncated the file
WriteResults == {"ok", "EACCES", "ENOSPC"}

InitInitCommand ==
  /\ tree = <<>>
  /\ config = NoConfig
  /\ mode = "idle"
  /\ stack = <<>>
  /\ outcome = NoOutcome
  /\ fsLog = <<>>
  /\ previous = NoPrevious
  /\ gen = NoGen
  /\ loaded = NoLoaded
  /\ probe = NoProbe
  /\ \E force \in BOOLEAN, file \in ExistingFiles :
       cli = [command |-> "init", pc |-> "start", force |-> force,
              file |-> file, before |-> file, writes |-> 0, report |-> "none"]

\* fileExists(configPath): fs.access succeeds
FileExists == cli.file # Absent

\* mutant: the file is written whether it exists or not
InitCheck_AlwaysWrite ==
  /\ cli.command = "init" /\ cli.pc = "start"
  /\ cli' = [cli EXCEPT !.pc = "write"]
  /\ UNCHANGED <<tree, config, mode, stack, outcome, fsLog, previous, gen,
                 loaded, probe>>

\* if ((await fileExists(configPath)) && !options.force) return
InitCheck ==
  /\ cli.command = "init" /\ cli.pc = "start"
  /\ cli' = IF FileExists /\ ~cli.force
            THEN [cli EXCEPT !.pc = "refused", !.report = "already exists"]
            ELSE [cli EXCEPT !.pc = "write"]
  /\ UNCHANGED <<tree, config, mode, stack, outcome, fsLog, previous, gen,
                 loaded, probe>>

\* try { await createDefaultConfig(configPath) } catch { spinner.fail }
CreateDefaultConfig(written) ==
  /\ cli.command = "init" /\ cli.pc = "write"
  /\ cli' = [cli EXCEPT
               !.pc = "returned",
               !.writes = @ + 1,
               !.file = IF written = "ok" THEN Text(Stringify(defaultConfig))
                        ELSE IF written = "ENOSPC" THEN Partial
                        ELSE @,
               !.report = IF written = "ok" THEN "created" ELSE "failed"]
  /\ UNCHANGED <<tree, config, mode, stack, outcome, fsLog, previous, gen,
                 loaded, probe>>

NextInitCommand ==
  \/ InitCheck
  \/ \E written \in WriteResults : CreateDefaultConfig(written)

SpecInitCommand == InitInitCommand /\ [][NextInitCommand]_vars

----------------------------------------------------------------------------
(* The outputs of the map command *)

\* the generators that were called
StartedGenerators ==
  {cli.log[k].generator : k \in {j \in DOMAIN cli.log : cli.log[j].event = "started"}}

\* the generators that wrote their file
WrittenGenerators ==
  {cli.log[k].generator : k \in {j \in DOMAIN cli.log : cli.log[j].event = "written"}}

\* the outputs the claim selects: the types of --only, markdown standing
\* for markdownTree, or without --only the types enabled in the config
ExpectedGenerators ==
  IF cli.only # <<>>
  THEN {IF type = "markdown" THEN "markdownTree" ELSE type : type \in Range(cli.only)}
  ELSE {g \in Range(GeneratorOrder) :
          g \in DOMAIN config.output /\ config.output[g].enabled}

\* C30: the map command calls the generators of exactly the selected outputs
\* (the types of --only whatever their enabled flags, markdown standing for
\* markdownTree; without --only the types whose enabled flag is true) and
\* writes no other output; with a missing or unparsable config file it calls
\* no generator and does not make the output directory.
C30_ExactlySelected ==
  /\ [](cli.command = "map" =>
          /\ cli.pc \in {"generators", "done"} =>
               /\ StartedGenerators \subseteq ExpectedGenerators
               /\ WrittenGenerators \subseteq StartedGenerators
               /\ \A g \in ExpectedGenerators :
                    Turn(g) < cli.slot => g \in StartedGenerators
          /\ cli.pc = "done" => StartedGenerators = ExpectedGenerators
          /\ cli.pc \in {"load", "mkdir", "select", "returned", "crashed"} =>
               cli.log = <<>>
          /\ cli.pc = "returned" <=>
               (cli.configFile \in {"missing", "malformed"} /\ cli.pc # "load"))
  /\ [][(cli.command = "map" /\ cli.configFile \in {"missing", "malformed"}) =>
          /\ cli'.outputDir = cli.outputDir
          /\ cli'.log = <<>>]_vars

\* the command has ended after --only with markdown and with a type that
\* the config disables, and both generators were called
C30_Witness ==
  /\ cli.command = "map" /\ cli.pc = "done"
  /\ "markdown" \in Range(cli.only)
  /\ "markdownTree" \in StartedGenerators
  /\ \E g \in StartedGenerators :
       g \in DOMAIN config.output /\ ~config.output[g].enabled

====
